---- MODULE Spec2Model ----
(***************************************************************************)
(* A model of compose.py: discovery of the photos, load_and_normalise,     *)
(* stitch_row, add_logo, save and the loop of main over the collage sizes. *)
(*                                                                         *)
(* An image is a record [w, h, px]: its width, its height and one entry    *)
(* per pixel column.  A column is [src, col, logo]: the photo it was       *)
(* decoded from, its position in that frame, and whether the logo was      *)
(* blended over it.  Images live in a heap (a sequence; an object is its   *)
(* index), so that a paste into one image is visible through every         *)
(* reference to it, as in Python.                                          *)
(*                                                                         *)
(* Arithmetic.  int(a * b / c) on positive integers of image size is the   *)
(* floor of the quotient (the float quotient is correctly rounded and      *)
(* cannot reach the next integer), and int(W * 0.15) equals                *)
(* floor(15 * W / 100) for every width below two million (checked by       *)
(* enumeration), so both are modelled with \div.                           *)
(*                                                                         *)
(* Library behaviour relied on: Image.open raises on a file that is not    *)
(* an image; Image.resize raises ValueError when a side of the requested   *)
(* size is below 1 and returns a copy when the size is unchanged;          *)
(* Image.paste clips the pasted box to the target image.  An uncaught      *)
(* exception ends the process with a non-zero status, like sys.exit(msg).  *)
(***************************************************************************)
EXTENDS Integers, Sequences, FiniteSets, TLC

\* ------------------------------------------------------------ configuration
TARGET_HEIGHT == 1200
LOGO_MAX_W_NUM == 15
LOGO_MAX_W_DEN == 100
PADDING == 12
Suffixes == {".jpg", ".jpeg", ".png"}
Sizes == <<2, 3, 4>>

\* ------------------------------------------------------------------ inputs
\* The number of candidate files of the images/ folder.
MaxFiles == 10

ExtCycle == <<".png", ".JPG", ".jpeg", ".txt", ".jpg", ".PNG", ".JPEG", ".gif">>
\* <<width, height, decodable>> of the candidate files.
ContentCycle ==
  << <<30, 800, TRUE>>,  <<40, 1200, TRUE>>, <<25, 1600, TRUE>>,
     <<10, 10, FALSE>>,  <<5, 1000, TRUE>>,  <<0, 0, FALSE>>,
     <<1, 2400, TRUE>>,  <<0, 0, FALSE>>,    <<20, 1201, TRUE>>,
     <<6, 900, TRUE>> >>

Names == 1 .. MaxFiles
Suffix(p) == ExtCycle[((p - 1) % Len(ExtCycle)) + 1]
Content(p) == ContentCycle[((p - 1) % Len(ContentCycle)) + 1]
Decodable(p) == Content(p)[3]

\* What may sit at the logo path: nothing, a file that is no image, a logo.
NoLogoFile == [exists |-> FALSE, ok |-> FALSE, w |-> 0, h |-> 0]
BadLogoFile == [exists |-> TRUE, ok |-> FALSE, w |-> 0, h |-> 0]
LogoSizes == { <<5, 4>>, <<60, 30>>, <<8, 1300>>, <<200, 3>>, <<1, 1>> }
LogoFiles ==
  {NoLogoFile, BadLogoFile}
    \cup { [exists |-> TRUE, ok |-> TRUE, w |-> s[1], h |-> s[2]] : s \in LogoSizes }

VARIABLES
  dirExists,      \* IMAGES_DIR.exists()
  dir,            \* the names of the files in IMAGES_DIR
  logoFile,       \* what is at LOGO_PATH
  pc,             \* position of main
  photos,         \* main: the sorted list of photos
  heap,           \* the images created so far
  opened,         \* load_and_normalise: the list of opened images (objects)
  frames,         \* main: the list load_and_normalise returned (objects)
  k,              \* main: index into Sizes of the loop `for n in (2, 3, 4)`
  collage,        \* main: the current collage (object), 0 before the first
  logo,           \* add_logo: size of the logo as pasted
  pos,            \* add_logo: where it was pasted
  outDirCreated,  \* OUTPUT_DIR.mkdir was called
  written         \* the files written: n :> the image saved as collage_n

vars == <<dirExists, dir, logoFile, pc, photos, heap, opened, frames, k,
          collage, logo, pos, outDirCreated, written>>

\* ----------------------------------------------------------------- helpers
Lower(s) ==
  CASE s = ".JPG" -> ".jpg"
    [] s = ".PNG" -> ".png"
    [] s = ".JPEG" -> ".jpeg"
    [] OTHER -> s

\* Sorted with the order reversed.
RECURSIVE Sorted_Descending(_)
Sorted_Descending(S) ==
  IF S = {} THEN <<>>
  ELSE LET m == CHOOSE x \in S : \A y \in S : x >= y
       IN <<m>> \o Sorted_Descending(S \ {m})

RECURSIVE Sorted(_)
Sorted(S) ==
  IF S = {} THEN <<>>
  ELSE LET m == CHOOSE x \in S : \A y \in S : x <= y
       IN <<m>> \o Sorted(S \ {m})

\* main, line 82: the files of the folder with a photo suffix, sorted.
Discover(d) == Sorted({p \in d : Lower(Suffix(p)) \in Suffixes})

\* ScaleW rounding to the nearest pixel instead of down.
ScaleW_Rounded(w, num, den) == (w * num + den \div 2) \div den

\* int(w * num / den) of lines 36 and 42.
ScaleW(w, num, den) == (w * num) \div den

Pixels(src, w) == [j \in 1 .. w |-> [src |-> src, col |-> j, logo |-> FALSE]]

\* Image.open(p).convert("RGB") of a decodable photo.
Open(p) == [w |-> Content(p)[1], h |-> Content(p)[2], px |-> Pixels(p, Content(p)[1])]

\* Image.resize raises ValueError for these sizes.
ResizeRaises(w, h) == w < 1 \/ h < 1

\* img.resize((w, h)): a new image; a copy when the size is unchanged.
Resize(img, w, h) ==
  IF img.w = w /\ img.h = h THEN img
  ELSE [w |-> w, h |-> h, px |-> Pixels(img.px[1].src, w)]

\* TooFew letting a single photo through.
TooFew_One(ph) == Len(ph) < 1

\* len(photos) < 2, line 83.
TooFew(ph) == Len(ph) < 2

\* LoaderInput cut down to the photos of the largest collage.
LoaderInput_Needed(ph) == SubSeq(ph, 1, IF Len(ph) < 4 THEN Len(ph) ELSE 4)

\* The list main hands to load_and_normalise, line 87: all the photos.
LoaderInput(ph) == ph

Init ==
  /\ dirExists \in BOOLEAN
  /\ dir \in SUBSET Names
  /\ dirExists = FALSE => dir = {}
  /\ logoFile \in LogoFiles
  /\ pc = "main"
  /\ photos = <<>>
  /\ heap = <<>>
  /\ opened = <<>>
  /\ frames = <<>>
  /\ k = 1
  /\ collage = 0
  /\ logo = [w |-> 0, h |-> 0]
  /\ pos = <<0, 0>>
  /\ outDirCreated = FALSE
  /\ written = <<>>

\* main, lines 80-85: the folder must exist and hold at least two photos.
MainDiscover ==
  /\ pc = "main"
  /\ IF ~dirExists
       THEN /\ pc' = "failed"
            /\ photos' = photos
       ELSE /\ photos' = Discover(dir)
            /\ pc' = IF TooFew(photos') THEN "failed" ELSE "load"
  /\ UNCHANGED <<dirExists, dir, logoFile, heap, opened, frames, k, collage,
                 logo, pos, outDirCreated, written>>

\* load_and_normalise, lines 32-38: one turn of the loop `for p in images`.
\* Image.open raises on a file that is no image, and resize on a width of 0;
\* nothing catches either, so the run ends there.
LoadOne ==
  /\ pc = "load"
  /\ LET p == LoaderInput(photos)[Len(opened) + 1]
         img == Open(p)
         w == ScaleW(img.w, TARGET_HEIGHT, img.h)
     IN IF ~Decodable(p)
          THEN /\ pc' = "failed"
               /\ UNCHANGED <<heap, opened>>
          ELSE IF img.h > TARGET_HEIGHT
            THEN IF ResizeRaises(w, TARGET_HEIGHT)
                   THEN /\ pc' = "failed"
                        /\ heap' = Append(heap, img)
                        /\ opened' = opened
                   ELSE /\ heap' = heap \o <<img, Resize(img, w, TARGET_HEIGHT)>>
                        /\ opened' = Append(opened, Len(heap) + 2)
                        /\ pc' = IF Len(opened') = Len(LoaderInput(photos)) THEN "equalise" ELSE "load"
            ELSE /\ heap' = Append(heap, img)
                 /\ opened' = Append(opened, Len(heap) + 1)
                 /\ pc' = IF Len(opened') = Len(LoaderInput(photos)) THEN "equalise" ELSE "load"
  /\ UNCHANGED <<dirExists, dir, logoFile, photos, frames, k, collage, logo, pos,
                 outDirCreated, written>>

\* MinHeight taking the height of the first image.
MinHeight_First(imgs) == imgs[1].h

\* min(i.height for i in opened), line 40.
MinHeight(imgs) ==
  CHOOSE m \in {imgs[i].h : i \in DOMAIN imgs} : \A i \in DOMAIN imgs : m <= imgs[i].h

\* Lines 42-43: every opened image resized to the height min_h.
EqualisedImage(img, min_h) == Resize(img, ScaleW(img.w, min_h, img.h), min_h)

\* load_and_normalise, lines 40-44, and the assignment of line 87.
Equalise ==
  /\ pc = "equalise"
  /\ LET imgs == [i \in DOMAIN opened |-> heap[opened[i]]]
         min_h == MinHeight(imgs)
     IN IF \E i \in DOMAIN imgs : imgs[i].h # min_h
          THEN IF \E i \in DOMAIN imgs :
                    ResizeRaises(ScaleW(imgs[i].w, min_h, imgs[i].h), min_h)
                 THEN /\ pc' = "failed"
                      /\ UNCHANGED <<heap, frames>>
                 ELSE /\ heap' = heap \o [i \in DOMAIN imgs |-> EqualisedImage(imgs[i], min_h)]
                      /\ frames' = [i \in DOMAIN imgs |-> Len(heap) + i]
                      /\ pc' = "loop"
          ELSE /\ frames' = opened
               /\ heap' = heap
               /\ pc' = "loop"
  /\ opened' = <<>>
  /\ UNCHANGED <<dirExists, dir, logoFile, photos, k, collage, logo, pos,
                 outDirCreated, written>>

\* ------------------------------------------------------------- stitch_row
RECURSIVE SumWidths(_)
SumWidths(fs) == IF fs = <<>> THEN 0 ELSE Head(fs).w + SumWidths(Tail(fs))

Background == [src |-> 0, col |-> 0, logo |-> FALSE]

\* Image.new("RGB", (w, h), COLLAGE_BG), line 50.
NewImage(w, h) == [w |-> w, h |-> h, px |-> [j \in 1 .. w |-> Background]]

\* canvas.paste(f, (x, 0)), line 53: the columns x .. x + f.w - 1 of the
\* canvas (those that exist) take the columns of f.
PasteFrame(canvas, f, x) ==
  [canvas EXCEPT !.px =
     [j \in 1 .. canvas.w |->
        IF x < j /\ j <= x + f.w THEN f.px[j - x] ELSE canvas.px[j]]]

\* Advance one column short.
Advance_Short(x, f) == x + f.w - 1

\* x += f.width, line 54.
Advance(x, f) == x + f.w

\* The loop of lines 51-54 from frame i on.
RECURSIVE PasteAll(_, _, _, _)
PasteAll(canvas, fs, i, x) ==
  IF i > Len(fs) THEN canvas
  ELSE PasteAll(PasteFrame(canvas, fs[i], x), fs, i + 1, Advance(x, fs[i]))

\* stitch_row, lines 46-55.
StitchRowImage(fs) == PasteAll(NewImage(SumWidths(fs), fs[1].h), fs, 1, 0)

n == Sizes[k]

\* main, lines 89-91: a size above the number of frames is passed over.
LoopSkip ==
  /\ pc = "loop"
  /\ n > Len(frames)
  /\ k' = k + 1
  /\ pc' = IF k' > Len(Sizes) THEN "done" ELSE "loop"
  /\ UNCHANGED <<dirExists, dir, logoFile, photos, heap, opened, frames, collage,
                 logo, pos, outDirCreated, written>>

\* The image objects a list of references denotes.
Deref(h, refs) == [i \in DOMAIN refs |-> h[refs[i]]]

\* CanvasRef when stitch_row builds the collage in its first frame.
CanvasRef_FirstFrame(h, fs) == fs[1]

\* The object stitch_row returns: the canvas Image.new made, a new object.
CanvasRef(h, fs) == Len(h) + 1

\* main, lines 92-93: subset = frames[:n]; collage = stitch_row(subset).
StitchRow ==
  /\ pc = "loop"
  /\ n <= Len(frames)
  /\ heap' = Append(heap, StitchRowImage(Deref(heap, SubSeq(frames, 1, n))))
  /\ collage' = CanvasRef(heap, frames)
  /\ pc' = "stitched"
  /\ UNCHANGED <<dirExists, dir, logoFile, photos, opened, frames, k, logo, pos,
                 outDirCreated, written>>

\* --------------------------------------------------------------- add_logo
\* MaxW rounding to the nearest pixel instead of down.
MaxW_Rounded(W) == (W * LOGO_MAX_W_NUM + LOGO_MAX_W_DEN \div 2) \div LOGO_MAX_W_DEN

\* max_w = int(base.width * LOGO_MAX_W_PCT), line 64.
MaxW(W) == (W * LOGO_MAX_W_NUM) \div LOGO_MAX_W_DEN

\* Lines 65-67: the size of the logo that is pasted.
LogoSize(lw, lh, max_w) ==
  IF lw > max_w THEN [w |-> max_w, h |-> ScaleW(lh, max_w, lw)]
  ELSE [w |-> lw, h |-> lh]

\* pos = (PADDING, base.height - logo.height - PADDING), line 69.
LogoPos(base, lg) == <<PADDING, base.h - lg.h - PADDING>>

\* base.paste(logo, pos, logo), line 70: the logo is blended over the
\* columns of its box that lie inside base, when some row of the box does.
PasteLogo(base, lg, at) ==
  IF at[2] < base.h /\ at[2] + lg.h > 0
    THEN [base EXCEPT !.px =
            [j \in 1 .. base.w |->
               IF at[1] < j /\ j <= at[1] + lg.w
                 THEN [base.px[j] EXCEPT !.logo = TRUE]
                 ELSE base.px[j]]]
    ELSE base

NoLogo == [w |-> 0, h |-> 0]

\* LogoPresent without the test of line 59.
LogoPresent_Always(f) == TRUE

\* logo_file.exists(), line 59.
LogoPresent(f) == f.exists

\* add_logo, lines 57-71, and the assignment of line 94.
AddLogo ==
  /\ pc = "stitched"
  /\ LET base == heap[collage]
         lg == LogoSize(logoFile.w, logoFile.h, MaxW(base.w))
     IN IF ~LogoPresent(logoFile)
          THEN /\ pc' = "stamped"
               /\ logo' = NoLogo
               /\ pos' = <<0, 0>>
               /\ heap' = heap
          ELSE IF ~logoFile.ok \/ (lg.w # logoFile.w /\ ResizeRaises(lg.w, lg.h))
            THEN /\ pc' = "failed"
                 /\ UNCHANGED <<heap, logo, pos>>
            ELSE /\ logo' = lg
                 /\ pos' = LogoPos(base, lg)
                 /\ heap' = [heap EXCEPT ![collage] = PasteLogo(base, lg, LogoPos(base, lg))]
                 /\ pc' = "stamped"
  /\ UNCHANGED <<dirExists, dir, logoFile, photos, opened, frames, k, collage,
                 outDirCreated, written>>

\* save, lines 73-77, and the step of the loop of line 89.
Save ==
  /\ pc = "stamped"
  /\ outDirCreated' = TRUE
  /\ written' = (n :> heap[collage]) @@ written
  /\ k' = k + 1
  /\ pc' = IF k' > Len(Sizes) THEN "done" ELSE "loop"
  /\ UNCHANGED <<dirExists, dir, logoFile, photos, heap, opened, frames, collage,
                 logo, pos>>

Next ==
  \/ MainDiscover
  \/ LoadOne
  \/ Equalise
  \/ LoopSkip
  \/ StitchRow
  \/ AddLogo
  \/ Save

Spec == Init /\ [][Next]_vars

\* ================================================================== claims
\* The photos of the folder, stated on the spellings of the suffix.
PhotoSpellings == {".jpg", ".JPG", ".jpeg", ".JPEG", ".png", ".PNG"}
Qualifying == {p \in dir : Suffix(p) \in PhotoSpellings}
NumQualifying == Cardinality(Qualifying)
\* The first N photos in the order of their names.
FirstN(N) == {p \in Qualifying : Cardinality({q \in Qualifying : q < p}) < N}
\* The sizes that a run over NumQualifying photos can satisfy.
Expected == {N \in {2, 3, 4} : N <= NumQualifying}

NativeW(p) == Content(p)[1]
NativeH(p) == Content(p)[2]
PostStep1Height(p) == IF NativeH(p) > TARGET_HEIGHT THEN TARGET_HEIGHT ELSE NativeH(p)
MinPostHeight ==
  CHOOSE m \in {PostStep1Height(p) : p \in Qualifying} :
    \A p \in Qualifying : m <= PostStep1Height(p)

RECURSIVE WidthBefore(_, _)
WidthBefore(fs, i) == IF i = 1 THEN 0 ELSE WidthBefore(fs, i - 1) + fs[i - 1].w

\* The frames fs tile the image c from left to right.
Tiles(c, fs) ==
  /\ c.w = WidthBefore(fs, Len(fs) + 1)
  /\ Len(c.px) = c.w
  /\ \A i \in DOMAIN fs : fs[i].h = c.h
  /\ \A i \in DOMAIN fs : \A j \in 1 .. fs[i].w :
       /\ c.px[WidthBefore(fs, i) + j].src = fs[i].px[j].src
       /\ c.px[WidthBefore(fs, i) + j].col = fs[i].px[j].col
  /\ \A x \in 1 .. c.w :
       /\ c.px[x] # Background
       /\ Cardinality({i \in DOMAIN fs :
                         WidthBefore(fs, i) < x /\ x <= WidthBefore(fs, i) + fs[i].w}) = 1

FirstFrames(N) == Deref(heap, SubSeq(frames, 1, N))
SrcSet(img) == {img.px[j].src : j \in DOMAIN img.px}
InNameOrder(img) == \A j \in 1 .. Len(img.px) - 1 : img.px[j].src <= img.px[j + 1].src
Unstamped(img) == \A j \in DOMAIN img.px : ~img.px[j].logo

\* C1: once load_and_normalise has returned, every frame has the same height,
\* the least post-Step-1 height of all the photos loaded, and so has every
\* collage stitched or written.
C1_EqualHeights ==
  frames # <<>> =>
    /\ Len(frames) = NumQualifying
    /\ \A i \in DOMAIN frames : heap[frames[i]].h = MinPostHeight
    /\ collage # 0 => heap[collage].h = MinPostHeight
    /\ \A N \in DOMAIN written : written[N].h = MinPostHeight

C1_Witness ==
  /\ pc = "done"
  /\ 4 \in DOMAIN written
  /\ Len(photos) >= 5
  /\ \A i \in 1 .. 4 : PostStep1Height(photos[5]) < PostStep1Height(photos[i])
  /\ written[4].h = PostStep1Height(photos[5])

\* C2: the canvas stitch_row returns is as wide as its frames together and as
\* high as they are, and frame i lies at the x-offset that is the sum of the
\* widths before it: every column is covered by exactly one frame.
C2_Tiling ==
  pc = "stitched" =>
    /\ Tiles(heap[collage], FirstFrames(n))
    /\ heap[collage].h = heap[frames[1]].h
    /\ Unstamped(heap[collage])

C2_Witness ==
  /\ pc = "stitched"
  /\ n = 4
  /\ heap[frames[1]].w # heap[frames[2]].w
  /\ heap[frames[2]].w # heap[frames[3]].w

C4_TooFewAborts ==
  (~dirExists \/ NumQualifying < 2) =>
    /\ pc \in {"main", "failed"}
    /\ heap = <<>>
    /\ opened = <<>>
    /\ frames = <<>>
    /\ written = <<>>
    /\ ~outDirCreated

C4_Witness ==
  /\ pc = "failed"
  /\ dirExists
  /\ NumQualifying = 1
  /\ Cardinality(dir) >= 2

\* C5: a photo that does not decode ends the run: the loader never passes it,
\* no frame list is returned and nothing is written, wherever the photo is in
\* the list.
C5_DecodeAborts ==
  (dirExists /\ \E p \in Qualifying : ~Decodable(p)) =>
    /\ pc \in {"main", "load", "failed"}
    /\ \A i \in DOMAIN photos : ~Decodable(photos[i]) => Len(opened) < i
    /\ frames = <<>>
    /\ collage = 0
    /\ written = <<>>
    /\ ~outDirCreated

C5_Witness ==
  /\ pc = "failed"
  /\ Len(photos) >= 5
  /\ Len(opened) = 4
  /\ ~Decodable(photos[5])

\* C6: the logo add_logo pastes is no wider than 15% of the collage: a wider
\* logo is scaled to the largest whole width within 15%, a logo within the
\* limit keeps its size.
C6_LogoWidth ==
  (pc = "stamped" /\ logoFile.exists) =>
    LET W == heap[collage].w
    IN /\ logo.w <= logoFile.w
       /\ 100 * logoFile.w > 15 * W =>
            /\ 100 * logo.w <= 15 * W
            /\ 15 * W - 100 * logo.w < 100
       /\ 100 * logoFile.w <= 15 * W =>
            logo = [w |-> logoFile.w, h |-> logoFile.h]

C6_Witness ==
  /\ pc = "stamped"
  /\ logoFile.exists
  /\ 100 * logoFile.w > 15 * heap[collage].w
  /\ logo.w >= 1
  /\ logo.w < logoFile.w

\* C7: with no file at the logo path add_logo changes nothing and raises
\* nothing: every collage is written as stitch_row made it, and the run
\* writes every collage it has the frames for.
C7_NoLogo ==
  ~logoFile.exists =>
    /\ logo = NoLogo
    /\ frames # <<>> => pc # "failed"
    /\ pc = "stamped" => (Tiles(heap[collage], FirstFrames(n)) /\ Unstamped(heap[collage]))
    /\ \A N \in DOMAIN written : Tiles(written[N], FirstFrames(N)) /\ Unstamped(written[N])
    /\ pc = "done" => DOMAIN written = Expected

C7_Witness ==
  /\ pc = "done"
  /\ ~logoFile.exists
  /\ DOMAIN written = {2, 3, 4}

\* The images Step 1 has produced so far, with the photos they come from.
Step1Done == pc \in {"load", "equalise"}

\* C8 as stated: Step 1 gives a photo higher than the target the target
\* height and the width w * target / h rounded to the nearest pixel, and
\* leaves the others as they are.
C8_Original ==
  Step1Done =>
    \A i \in DOMAIN opened :
      LET p == photos[i]
          img == heap[opened[i]]
      IN IF NativeH(p) > TARGET_HEIGHT
           THEN /\ img.h = TARGET_HEIGHT
                /\ 2 * img.w * NativeH(p) >= 2 * NativeW(p) * TARGET_HEIGHT - NativeH(p)
                /\ 2 * img.w * NativeH(p) <= 2 * NativeW(p) * TARGET_HEIGHT + NativeH(p)
           ELSE img.w = NativeW(p) /\ img.h = NativeH(p)

\* C8 amended: the width is w * target / h rounded down; when that is 0 the
\* resize raises and the run ends in Step 1.
C8_Amended ==
  /\ Step1Done =>
       \A i \in DOMAIN opened :
         LET p == photos[i]
             img == heap[opened[i]]
         IN IF NativeH(p) > TARGET_HEIGHT
              THEN /\ img.h = TARGET_HEIGHT
                   /\ img.w >= 1
                   /\ img.w * NativeH(p) <= NativeW(p) * TARGET_HEIGHT
                   /\ (img.w + 1) * NativeH(p) > NativeW(p) * TARGET_HEIGHT
              ELSE img.w = NativeW(p) /\ img.h = NativeH(p)
  /\ \A i \in DOMAIN photos :
       (NativeH(photos[i]) > TARGET_HEIGHT
          /\ NativeW(photos[i]) * TARGET_HEIGHT < NativeH(photos[i]))
         => (Len(opened) < i /\ frames = <<>>)

C8_Witness ==
  /\ pc = "equalise"
  /\ \E i \in DOMAIN opened :
       /\ NativeH(photos[i]) > TARGET_HEIGHT
       /\ 2 * ((NativeW(photos[i]) * TARGET_HEIGHT) % NativeH(photos[i])) > NativeH(photos[i])
  /\ \E i \in DOMAIN opened : NativeH(photos[i]) = TARGET_HEIGHT
  /\ \E i \in DOMAIN opened : NativeH(photos[i]) < TARGET_HEIGHT

\* C9: once load_and_normalise has returned, no step of the loop changes the
\* list of frames or a frame, and a new collage carries nothing of the logo
\* pasted on an earlier one.
C9_FramesReadOnly ==
  [][frames # <<>> =>
       /\ frames' = frames
       /\ Deref(heap', frames) = Deref(heap, frames)
       /\ pc' = "stitched" =>
            (Unstamped(heap'[collage']) /\ Tiles(heap'[collage'], Deref(heap, SubSeq(frames, 1, n))))]_vars

C9_Witness ==
  /\ pc = "stitched"
  /\ k = 2
  /\ 2 \in DOMAIN written
  /\ ~Unstamped(written[2])
  /\ \E j \in DOMAIN written[2].px : written[2].px[j].logo /\ written[2].px[j].src = photos[1]

\* C10: the logo add_logo pastes lies inside the collage, PADDING away from
\* its left and bottom edges, and is at least one pixel wide and high.
C10_LogoInside ==
  (pc = "stamped" /\ logoFile.exists) =>
    /\ pos = <<PADDING, heap[collage].h - logo.h - PADDING>>
    /\ pos[2] >= 0
    /\ pos[1] + logo.w <= heap[collage].w
    /\ logo.w >= 1
    /\ logo.h >= 1

====
